---- MODULE Spec2Model ----
(***************************************************************************)
(* State-machine model of the rate import service in src/app.py: the two   *)
(* persisted tables (parites, parites_jour), the HTTP handlers             *)
(* api_ensure_schema, api_import_day and api_import_range, and the decimal *)
(* arithmetic used for the inverse rate.                                   *)
(*                                                                         *)
(* Decimals.  An upstream rate is a Python Decimal: a coefficient m and an *)
(* exponent e, value m * 10^e.  A stored DECIMAL(18,8) value is a natural  *)
(* number of units of 10^-8, written as its sequence of decimal digits,    *)
(* most significant first, without leading zeros (zero is << >>), because  *)
(* such values (up to 10^18 - 1) do not fit the model checker's integers.  *)
(***************************************************************************)
EXTENDS Integers, Sequences, FiniteSets, TLC

\* ------------------------------------------------------------------ bounds
\* Largest decimal exponent (and smallest, negated) of an upstream rate.
MaxExp == 9
\* Largest coefficient of an upstream rate in the numeric specification.
MaxMant == 6
\* Number of calendar days the upstream source can return rates for.
NumDates == 2

\* ------------------------------------------------------- program constants
\* Fractional digits of DECIMAL(18,8) and of quantize(Decimal("0.00000001")).
FracDigits == 8
\* Total digits of DECIMAL(18,8).
TotalDigits == 18

\* --------------------------------------------------- digit-sequence numbers
RECURSIVE Zeros(_)
Zeros(k) == IF k <= 0 THEN << >> ELSE <<0>> \o Zeros(k - 1)

RECURSIVE Norm(_)
Norm(s) == IF s = << >> THEN << >>
           ELSE IF Head(s) = 0 THEN Norm(Tail(s)) ELSE s

RECURSIVE NatToDigits(_)
NatToDigits(n) == IF n = 0 THEN << >> ELSE Append(NatToDigits(n \div 10), n % 10)

\* s * 10^k
Shift(s, k) == IF s = << >> THEN << >> ELSE s \o Zeros(k)

RECURSIVE Reverse(_)
Reverse(s) == IF s = << >> THEN << >> ELSE Append(Reverse(Tail(s)), Head(s))

\* Long division of the digit sequence s by the small natural m > 0:
\* [q |-> quotient digits (not normalised), r |-> remainder].
RECURSIVE LongDiv(_, _, _)
LongDiv(s, m, acc) ==
    IF s = << >> THEN acc
    ELSE LET cur == acc.r * 10 + Head(s)
         IN  LongDiv(Tail(s), m, [q |-> Append(acc.q, cur \div m), r |-> cur % m])

DivMod(s, m) == LET d == LongDiv(s, m, [q |-> << >>, r |-> 0])
                IN  [q |-> Norm(d.q), r |-> d.r]

\* Little-endian helpers (least significant digit first).
RECURSIVE AddLE(_, _, _)
AddLE(a, b, c) ==
    IF a = << >> /\ b = << >> THEN (IF c = 0 THEN << >> ELSE <<c>>)
    ELSE LET x == IF a = << >> THEN 0 ELSE Head(a)
             y == IF b = << >> THEN 0 ELSE Head(b)
             t == x + y + c
         IN  <<t % 10>> \o AddLE(IF a = << >> THEN a ELSE Tail(a),
                                 IF b = << >> THEN b ELSE Tail(b), t \div 10)

\* a - b for a >= b
RECURSIVE SubLE(_, _, _)
SubLE(a, b, c) ==
    IF a = << >> THEN << >>
    ELSE LET y == IF b = << >> THEN 0 ELSE Head(b)
             t == Head(a) - y - c
         IN  <<IF t < 0 THEN t + 10 ELSE t>>
               \o SubLE(Tail(a), IF b = << >> THEN b ELSE Tail(b), IF t < 0 THEN 1 ELSE 0)

RECURSIVE MulLE(_, _, _)
MulLE(a, m, c) ==
    IF a = << >> THEN Reverse(NatToDigits(c))
    ELSE LET t == Head(a) * m + c
         IN  <<t % 10>> \o MulLE(Tail(a), m, t \div 10)

Add(a, b) == Norm(Reverse(AddLE(Reverse(a), Reverse(b), 0)))
Sub(a, b) == Norm(Reverse(SubLE(Reverse(a), Reverse(b), 0)))
MulSmall(a, m) == Norm(Reverse(MulLE(Reverse(a), m, 0)))

\* a < b on normalised digit sequences
RECURSIVE LexLess(_, _)
LexLess(a, b) ==
    IF a = << >> THEN FALSE
    ELSE IF Head(a) # Head(b) THEN Head(a) < Head(b)
    ELSE LexLess(Tail(a), Tail(b))

Less(a, b) == IF Len(a) # Len(b) THEN Len(a) < Len(b) ELSE LexLess(a, b)
Leq(a, b) == ~Less(b, a)
AbsDiff(a, b) == IF Less(a, b) THEN Sub(b, a) ELSE Sub(a, b)
IsOdd(s) == s # << >> /\ s[Len(s)] % 2 = 1

\* a * b (schoolbook multiplication, the shorter factor consumed digit by digit)
RECURSIVE MulAcc(_, _, _)
MulAcc(a, b, acc) ==
    IF b = << >> THEN acc
    ELSE MulAcc(a, Tail(b), Add(Shift(acc, 1), MulSmall(a, Head(b))))

Mul(a, b) == IF Len(a) < Len(b) THEN MulAcc(b, a, << >>) ELSE MulAcc(a, b, << >>)
Pow10(k) == <<1>> \o Zeros(k)

\* ------------------------------------------------------- decimal arithmetic
\* Python: `rate == 0` on a Decimal (app.py lines 289 and 326).
IsZeroRate(rate) == rate.m = 0

\* A quantize that rounds toward zero (ROUND_DOWN).
QuantizeTruncating(q, r, m) == q

\* Decimal.quantize under the default context (ROUND_HALF_EVEN): the quotient
\* q with remainder r of a division by m, rounded to the nearest unit.
Quantize(q, r, m) ==
    IF 2 * r > m \/ (2 * r = m /\ IsOdd(q)) THEN Add(q, <<1>>) ELSE q

\* (Decimal("1") / rate).quantize(Decimal("0.00000001")), in units of 10^-8:
\* 10^(8 - e) / m rounded half-even.  For e > 8 the quotient is below 0.1
\* units and quantizes to zero.  The 28-digit context precision of the
\* division does not change the result for the coefficients modelled here.
InverseUnits(rate) ==
    IF rate.e > FracDigits THEN << >>
    ELSE LET d == DivMod(Pow10(FracDigits - rate.e), rate.m)
         IN  Quantize(d.q, d.r, rate.m)

\* Dropping the last k digits of ds, rounding half away from zero: how the
\* store rounds a value with more than 8 fractional digits into DECIMAL(18,8).
RoundHalfUpDrop(ds, k) ==
    LET n == Len(ds)
    IN  IF k <= 0 THEN ds
        ELSE IF n < k THEN << >>
        ELSE LET q == SubSeq(ds, 1, n - k)
             IN  IF ds[n - k + 1] >= 5 THEN Add(q, <<1>>) ELSE q

\* str(rate) as the store reads it into a DECIMAL(18,8) column, in units of
\* 10^-8.
RateUnits(rate) ==
    IF rate.m = 0 THEN << >>
    ELSE IF rate.e >= 0 - FracDigits
         THEN Shift(NatToDigits(rate.m), rate.e + FracDigits)
         ELSE RoundHalfUpDrop(NatToDigits(rate.m), 0 - FracDigits - rate.e)

\* A value fits DECIMAL(18,8) when it has at most 18 digits; the store, in
\* its default strict mode, refuses a larger one ("Out of range value").
FitsColumn(units) == Len(units) <= TotalDigits

\* ------------------------------------------------------------ the registry
\* ISO code -> (label, one-character code).  An ISO code is the sequence of
\* its characters; labels are written without their accents.
PARITES_DICT ==
    {
      [iso |-> <<"U", "S", "D">>, lib |-> "Dollar americain", code |-> "$"],
      [iso |-> <<"G", "B", "P">>, lib |-> "Livre sterling", code |-> "L"],
      [iso |-> <<"J", "P", "Y">>, lib |-> "Yen japonais", code |-> "J"],
      [iso |-> <<"C", "H", "F">>, lib |-> "Franc suisse", code |-> "0"],
      [iso |-> <<"C", "A", "D">>, lib |-> "Dollar canadien", code |-> "C"],
      [iso |-> <<"A", "U", "D">>, lib |-> "Dollar australien", code |-> "A"],
      [iso |-> <<"B", "G", "N">>, lib |-> "Lev bulgare", code |-> "B"],
      [iso |-> <<"D", "K", "K">>, lib |-> "Couronne danoise", code |-> "D"],
      [iso |-> <<"H", "U", "F">>, lib |-> "Forint hongrois", code |-> "H"],
      [iso |-> <<"I", "L", "S">>, lib |-> "Nouveau shekel israelien", code |-> "I"],
      [iso |-> <<"C", "Z", "K">>, lib |-> "Couronne tcheque", code |-> "K"],
      [iso |-> <<"N", "O", "K">>, lib |-> "Couronne norvegienne", code |-> "N"],
      [iso |-> <<"R", "O", "N">>, lib |-> "Leu roumain", code |-> "R"],
      [iso |-> <<"S", "E", "K">>, lib |-> "Couronne suedoise", code |-> "S"],
      [iso |-> <<"T", "R", "Y">>, lib |-> "Livre turque", code |-> "T"],
      [iso |-> <<"C", "N", "Y">>, lib |-> "Yuan chinois", code |-> "Y"],
      [iso |-> <<"P", "L", "N">>, lib |-> "Zloty polonais", code |-> "Z"],
      [iso |-> <<"I", "S", "K">>, lib |-> "Couronne islandaise", code |-> "1"],
      [iso |-> <<"B", "R", "L">>, lib |-> "Real bresilien", code |-> "2"],
      [iso |-> <<"H", "K", "D">>, lib |-> "Dollar de Hong Kong", code |-> "3"],
      [iso |-> <<"I", "N", "R">>, lib |-> "Roupie indienne", code |-> "4"],
      [iso |-> <<"K", "R", "W">>, lib |-> "Won sud-coreen", code |-> "5"],
      [iso |-> <<"M", "X", "N">>, lib |-> "Peso mexicain", code |-> "6"],
      [iso |-> <<"M", "Y", "R">>, lib |-> "Ringgit malaisien", code |-> "7"],
      [iso |-> <<"P", "H", "P">>, lib |-> "Peso philippin", code |-> "9"],
      [iso |-> <<"S", "G", "D">>, lib |-> "Dollar de Singapour", code |-> "W"],
      [iso |-> <<"T", "H", "B">>, lib |-> "Baht thailandais", code |-> "X"],
      [iso |-> <<"Z", "A", "R">>, lib |-> "Rand sud-africain", code |-> "P"],
      [iso |-> <<"I", "D", "R">>, lib |-> "Roupie indonesienne", code |-> "Q"]
    }

\* The upper-case form of each lower-case letter.
UpperOf ==
    ("a" :> "A") @@ ("b" :> "B") @@ ("c" :> "C") @@ ("d" :> "D") @@ ("e" :> "E") @@
    ("f" :> "F") @@ ("g" :> "G") @@ ("h" :> "H") @@ ("i" :> "I") @@ ("j" :> "J") @@
    ("k" :> "K") @@ ("l" :> "L") @@ ("m" :> "M") @@ ("n" :> "N") @@ ("o" :> "O") @@
    ("p" :> "P") @@ ("q" :> "Q") @@ ("r" :> "R") @@ ("s" :> "S") @@ ("t" :> "T") @@
    ("u" :> "U") @@ ("v" :> "V") @@ ("w" :> "W") @@ ("x" :> "X") @@ ("y" :> "Y") @@
    ("z" :> "Z")

UpperLetterSet == {UpperOf[c] : c \in DOMAIN UpperOf}

\* str.upper()
RECURSIVE Upper(_)
Upper(s) ==
    IF s = << >> THEN << >>
    ELSE <<IF Head(s) \in DOMAIN UpperOf THEN UpperOf[Head(s)] ELSE Head(s)>>
         \o Upper(Tail(s))

\* str.strip(): leading and trailing blanks removed
RECURSIVE LStrip(_)
LStrip(s) == IF s # << >> /\ Head(s) = " " THEN LStrip(Tail(s)) ELSE s

RECURSIVE RStrip(_)
RStrip(s) == IF s # << >> /\ s[Len(s)] = " " THEN RStrip(SubSeq(s, 1, Len(s) - 1)) ELSE s

Strip(s) == RStrip(LStrip(s))

\* re.fullmatch(r"[A-Z]{3}", code)
MatchesIso(code) == Len(code) = 3 /\ \A i \in 1..3 : code[i] \in UpperLetterSet

\* _safe_iso accepting any three characters.
safe_iso_any_three(raw) ==
    IF Len(Upper(Strip(raw))) = 3 THEN [ok |-> TRUE, iso |-> Upper(Strip(raw))]
    ELSE [ok |-> FALSE, iso |-> << >>]

\* _safe_iso: the normalised code, or the 400 it raises
safe_iso(raw) ==
    IF MatchesIso(Upper(Strip(raw))) THEN [ok |-> TRUE, iso |-> Upper(Strip(raw))]
    ELSE [ok |-> FALSE, iso |-> << >>]

InDict(iso) == \E p \in PARITES_DICT : p.iso = iso
DictEntry(iso) == CHOOSE p \in PARITES_DICT : p.iso = iso

\* ------------------------------------------------------------------- state
VARIABLES
    apilayer_key,   \* APILAYER_KEY is set (read once when the module loads)
    tables,         \* names of the tables that exist in the store
    parites,        \* committed rows of table parites
    parites_jour,   \* committed rows of table parites_jour
    open_conns,     \* store connections opened by a request and not closed
    last,           \* the last request: what it was given, did and answered
    imported        \* history: per (code, date), the row queued by the most
                    \* recent successful import that wrote the pair

vars == <<apilayer_key, tables, parites, parites_jour, open_conns, last, imported>>

Dates == 1..NumDates

\* A date string of a payload: absent, not an ISO date, or the ISO form of a
\* day.
NoDate == [k |-> "none", d |-> 0]
BadDate == [k |-> "bad", d |-> 0]
IsoDate(d) == [k |-> "iso", d |-> d]

\* _parse_date: dt.date.fromisoformat, any exception turned into a 400
parse_date(s) == IF s.k = "iso" THEN [ok |-> TRUE, d |-> s.d]
                 ELSE [ok |-> FALSE, d |-> 0]

NoRates == << >>
ZeroDecimal == [m |-> 0, e |-> 0]

RECURSIVE SortedSeq(_)
SortedSeq(S) ==
    IF S = {} THEN << >>
    ELSE LET lo == CHOOSE x \in S : \A y \in S : x <= y
         IN  <<lo>> \o SortedSeq(S \ {lo})

SeqToSet(s) == {s[i] : i \in 1..Len(s)}

\* ------------------------------------------------------ rate source adapter
FetchFail(status, err, detail, net) ==
    [ok |-> FALSE, status |-> status, err |-> err, detail |-> detail,
     net |-> net, rates |-> NoRates]

FetchOk(rates) ==
    [ok |-> TRUE, status |-> 200, err |-> "", detail |-> "", net |-> 1,
     rates |-> rates]

\* _apilayer_get on one response of the source: requests.get raising is not
\* caught anywhere (the framework answers 500); an error status or a body
\* that is not JSON is a 502.
apilayer_get(r) ==
    IF r.k = "transport_error" THEN FetchFail(500, "UpstreamError", "transport", 1)
    ELSE IF r.k = "http_error" THEN FetchFail(502, "UpstreamError", "http_status", 1)
    ELSE IF r.k = "not_json" THEN FetchFail(502, "UpstreamError", "not_json", 1)
    ELSE FetchOk(NoRates)

\* _get_latest_rate on one response r: [k, d, rate], d = 0 when the body has
\* no date.
latest_rate_of(r, date_override) ==
    LET got == apilayer_get(r)
        d == IF r.d # 0 THEN r.d
             ELSE IF date_override.k = "iso" THEN date_override.d ELSE 0
    IN  IF ~got.ok THEN got
        ELSE IF r.k = "no_symbol" THEN FetchFail(502, "UpstreamError", "no_symbol", 1)
        ELSE IF r.k # "bad_date" /\ d = 0 THEN FetchFail(502, "UpstreamError", "no_date", 1)
        ELSE IF r.k = "bad_date" THEN FetchFail(500, "UpstreamError", "bad_date", 1)
        ELSE IF r.k = "bad_rate" THEN FetchFail(502, "UpstreamError", "bad_rate", 1)
        ELSE FetchOk(d :> r.rate)

\* _must_have_apilayer raises RuntimeError, which no handler catches.
get_latest_rate(key, date_override, responses) ==
    IF ~key THEN {FetchFail(500, "MisconfiguredSource", "no_key", 0)}
    ELSE {latest_rate_of(r, date_override) : r \in responses}

\* _get_timeseries_rates on one response r: [k, rates], rates the mapping of
\* the dates whose rate object holds the target.
timeseries_of(r) ==
    LET got == apilayer_get(r)
    IN  IF ~got.ok THEN got
        ELSE IF r.k = "bad_rates" THEN FetchFail(502, "UpstreamError", "bad_rates", 1)
        ELSE IF r.k = "bad_date" THEN FetchFail(500, "UpstreamError", "bad_date", 1)
        ELSE IF r.k = "bad_rate" THEN FetchFail(502, "UpstreamError", "bad_rate", 1)
        ELSE IF DOMAIN r.rates = {} THEN FetchFail(502, "UpstreamError", "empty", 1)
        ELSE FetchOk(r.rates)

get_timeseries_rates(key, responses) ==
    IF ~key THEN {FetchFail(500, "MisconfiguredSource", "no_key", 0)}
    ELSE {timeseries_of(r) : r \in responses}

\* ------------------------------------------------------------------ storage
\* The store as a transaction sees it.
Db == [tables |-> tables, parites |-> parites, parites_jour |-> parites_jour]

\* Faults the store can raise during one request.
Faults == {"none", "connect", "ddl", "provision", "upsert", "commit"}

\* host, user and database must all be non-empty.
ConfigComplete(cfg) == cfg.host # "" /\ cfg.user # "" /\ cfg.database # ""

\* _ensure_tables: two CREATE TABLE IF NOT EXISTS statements.  DDL is
\* committed by the store as it runs.
ensure_tables(db, fault) ==
    IF fault = "ddl" THEN [ok |-> FALSE, db |-> db, stmts |-> 1]
    ELSE [ok |-> TRUE, db |-> [db EXCEPT !.tables = {"parites", "parites_jour"}],
          stmts |-> 2]

\* INSERT IGNORE INTO parites: a row whose PARITES_CODE (primary key) or
\* PARITES_ISO (unique key) is already there is dropped.
InsertIgnore(rows, row) ==
    IF \E r \in rows : r.code = row.code \/ r.iso = row.iso THEN rows
    ELSE rows \cup {row}

\* _ensure_parites_row_for_target
ensure_parites_row_for_target(db, target_iso, fault) ==
    LET s == safe_iso(target_iso)
    IN  IF ~s.ok
        THEN [ok |-> FALSE, status |-> 400, err |-> "InvalidFormat", detail |-> "target",
              db |-> db, stmts |-> 0, code |-> ""]
        ELSE IF ~InDict(s.iso)
        THEN [ok |-> FALSE, status |-> 400, err |-> "UnsupportedCurrency",
              detail |-> "target", db |-> db, stmts |-> 0, code |-> ""]
        ELSE LET e == DictEntry(s.iso)
                 ins == InsertIgnore(db.parites,
                                     [code |-> e.code, iso |-> s.iso, lib |-> e.lib])
             IN  IF fault = "provision"
                 THEN [ok |-> FALSE, status |-> 500, err |-> "StorageError",
                       detail |-> "insert", db |-> db, stmts |-> 1, code |-> ""]
                 ELSE IF ~\E r \in ins : r.code = e.code
                 THEN [ok |-> FALSE, status |-> 500, err |-> "StorageError",
                       detail |-> "code_not_found",
                       db |-> [db EXCEPT !.parites = ins], stmts |-> 2, code |-> ""]
                 ELSE [ok |-> TRUE, status |-> 200, err |-> "", detail |-> "",
                       db |-> [db EXCEPT !.parites = ins], stmts |-> 2, code |-> e.code]

\* What the store keeps of a queued row: str(rate) read into DECIMAL(18,8).
StoredRow(r) ==
    [code |-> r.code, date |-> r.date, rate |-> RateUnits(r.rate),
     rate_div |-> r.rate_div]

\* A plain INSERT that keeps the row already stored under the key.
UpsertRowKeepingOld(rows, row) ==
    IF \E x \in rows : x.code = row.code /\ x.date = row.date THEN rows
    ELSE rows \cup {row}

\* INSERT ... ON DUPLICATE KEY UPDATE on the key (PARITES_CODE,
\* PARITES_JOUR_DATE): the row stored under the key is replaced.
UpsertRow(rows, row) ==
    {x \in rows : ~(x.code = row.code /\ x.date = row.date)} \cup {row}

RECURSIVE UpsertAll(_, _)
UpsertAll(rows, queued) ==
    IF queued = << >> THEN rows
    ELSE UpsertAll(UpsertRow(rows, StoredRow(Head(queued))), Tail(queued))

\* The foreign key fk_parites_jour_parites.
ForeignKeyHolds(db, row) == \E c \in db.parites : c.code = row.code

\* _upsert_parites_jour: executemany sends nothing for an empty list, else
\* one multi-row statement, which the store refuses as a whole when a value
\* is out of range or the foreign key fails.
upsert_parites_jour(db, rows, fault) ==
    IF rows = << >> THEN [ok |-> TRUE, detail |-> "", db |-> db, stmts |-> 0]
    ELSE IF fault = "upsert"
    THEN [ok |-> FALSE, detail |-> "upsert", db |-> db, stmts |-> 1]
    ELSE IF \E i \in 1..Len(rows) :
                \/ ~FitsColumn(RateUnits(rows[i].rate))
                \/ ~FitsColumn(rows[i].rate_div)
    THEN [ok |-> FALSE, detail |-> "out_of_range", db |-> db, stmts |-> 1]
    ELSE IF \E i \in 1..Len(rows) : ~ForeignKeyHolds(db, rows[i])
    THEN [ok |-> FALSE, detail |-> "foreign_key", db |-> db, stmts |-> 1]
    ELSE [ok |-> TRUE, detail |-> "",
          db |-> [db EXCEPT !.parites_jour = UpsertAll(@, rows)], stmts |-> 1]

\* A rollback that gives up the rate rows and keeps the currency rows (table
\* parites on an engine without transactions).
RollbackRatesOnly(committed, work) ==
    [work EXCEPT !.parites_jour = committed.parites_jour]

\* A rollback that gives up the currency rows and keeps the rate rows.
RollbackCurrenciesOnly(committed, work) ==
    [work EXCEPT !.parites = committed.parites]

\* conn.rollback(): the rows return to their committed contents; the tables
\* created by the DDL stay.
Rollback(committed, work) == [committed EXCEPT !.tables = work.tables]

\* The rows queued for one date.
QueuedRow(code, d, rate) ==
    [code |-> code, date |-> d, rate |-> rate, rate_div |-> InverseUnits(rate)]

\* `rates` is what the handler's loop ran over (nothing when it was not
\* reached) and `rows` what it queued.
TxFail(status, err, detail, db, stmts, rates, rows) ==
    [status |-> status, err |-> err, detail |-> detail, db |-> db, stmts |-> stmts,
     rates |-> rates, rows |-> rows, committed |-> FALSE, rolled_back |-> TRUE]

TxOk(db, stmts, rates, rows) ==
    [status |-> 200, err |-> "", detail |-> "", db |-> db, stmts |-> stmts,
     rates |-> rates, rows |-> rows, committed |-> TRUE, rolled_back |-> FALSE]

\* ----------------------------------------------------- the source's answers
FailedResponses(kinds) ==
    {[k |-> x, d |-> 0, rate |-> ZeroDecimal, rates |-> NoRates] : x \in kinds}

\* Answers of the latest endpoint (no date asked for: any day is the latest)
\* or of the historical endpoint for the day asked for: failures, and a rate
\* with the date the body carries (0: none).
DayResponses(failures, rates, date_override) ==
    FailedResponses(failures \cap {"transport_error", "http_error", "not_json",
                                   "no_symbol", "bad_date", "bad_rate"})
    \cup {[k |-> "ok", d |-> d, rate |-> r, rates |-> NoRates] :
              d \in (IF date_override.k = "iso" THEN {date_override.d} ELSE Dates)
                        \cup {0},
              r \in rates}

\* Answers of the timeseries endpoint for the period start..end: failures,
\* and a rate for some of the days of the period (possibly none).
RangeResponses(failures, rates, start, end) ==
    FailedResponses(failures \cap {"transport_error", "http_error", "not_json",
                                   "bad_rates", "bad_date", "bad_rate"})
    \cup {[k |-> "ok", d |-> 0, rate |-> ZeroDecimal, rates |-> m] :
              m \in UNION {[D -> rates] : D \in SUBSET (start..end)}}

\* --------------------------------------------------------------- handlers
\* A range loop that stops at the first zero rate (break for continue).
RECURSIVE range_rows_stopping(_, _, _, _)
range_rows_stopping(code, rates, ds, acc) ==
    IF ds = << >> THEN [ok |-> TRUE, rows |-> acc]
    ELSE IF IsZeroRate(rates[Head(ds)]) THEN [ok |-> TRUE, rows |-> acc]
    ELSE range_rows_stopping(code, rates, Tail(ds),
                             Append(acc, QueuedRow(code, Head(ds), rates[Head(ds)])))

\* The loop of api_import_range over ds = sorted(rates.keys()): a zero rate
\* is passed over.
RECURSIVE range_rows(_, _, _, _)
range_rows(code, rates, ds, acc) ==
    IF ds = << >> THEN [ok |-> TRUE, rows |-> acc]
    ELSE IF IsZeroRate(rates[Head(ds)]) THEN range_rows(code, rates, Tail(ds), acc)
    ELSE range_rows(code, rates, Tail(ds),
                    Append(acc, QueuedRow(code, Head(ds), rates[Head(ds)])))

\* A day loop that passes over a zero rate as the range loop does.
day_rows_skipping(code, rates, ds, acc) == range_rows(code, rates, ds, acc)

\* The loop of api_import_day over the fetched rates: a zero rate raises.
RECURSIVE day_rows(_, _, _, _)
day_rows(code, rates, ds, acc) ==
    IF ds = << >> THEN [ok |-> TRUE, rows |-> acc]
    ELSE IF IsZeroRate(rates[Head(ds)]) THEN [ok |-> FALSE, rows |-> acc]
    ELSE day_rows(code, rates, Tail(ds),
                  Append(acc, QueuedRow(code, Head(ds), rates[Head(ds)])))

\* The try block of api_import_day with its except clauses, on an open
\* connection.
api_import_day_tx(db, target, rates, fault) ==
    LET t == ensure_tables(db, fault)
        p == ensure_parites_row_for_target(t.db, target, fault)
        b == day_rows(p.code, rates, SortedSeq(DOMAIN rates), << >>)
        u == upsert_parites_jour(p.db, b.rows, fault)
    IN  IF ~t.ok
        THEN TxFail(500, "StorageError", "ddl", Rollback(db, t.db), t.stmts, NoRates, << >>)
        ELSE IF ~p.ok
        THEN TxFail(p.status, p.err, p.detail, Rollback(db, p.db),
                    t.stmts + p.stmts, NoRates, << >>)
        ELSE IF ~b.ok
        THEN TxFail(502, "ZeroRate", "zero_rate", Rollback(db, p.db),
                    t.stmts + p.stmts, rates, b.rows)
        ELSE IF ~u.ok
        THEN TxFail(500, "StorageError", u.detail, Rollback(db, u.db),
                    t.stmts + p.stmts + u.stmts, rates, b.rows)
        ELSE IF fault = "commit"
        THEN TxFail(500, "StorageError", "commit", Rollback(db, u.db),
                    t.stmts + p.stmts + u.stmts, rates, b.rows)
        ELSE TxOk(u.db, t.stmts + p.stmts + u.stmts, rates, b.rows)

\* The try block of api_import_range with its except clauses.
api_import_range_tx(db, target, rates, fault) ==
    LET t == ensure_tables(db, fault)
        p == ensure_parites_row_for_target(t.db, target, fault)
        b == range_rows(p.code, rates, SortedSeq(DOMAIN rates), << >>)
        u == upsert_parites_jour(p.db, b.rows, fault)
    IN  IF ~t.ok
        THEN TxFail(500, "StorageError", "ddl", Rollback(db, t.db), t.stmts, NoRates, << >>)
        ELSE IF ~p.ok
        THEN TxFail(p.status, p.err, p.detail, Rollback(db, p.db),
                    t.stmts + p.stmts, NoRates, << >>)
        ELSE IF ~u.ok
        THEN TxFail(500, "StorageError", u.detail, Rollback(db, u.db),
                    t.stmts + p.stmts + u.stmts, rates, b.rows)
        ELSE IF fault = "commit"
        THEN TxFail(500, "StorageError", "commit", Rollback(db, u.db),
                    t.stmts + p.stmts + u.stmts, rates, b.rows)
        ELSE TxOk(u.db, t.stmts + p.stmts + u.stmts, rates, b.rows)

\* The try block of api_ensure_schema.
api_ensure_schema_tx(db, fault) ==
    LET t == ensure_tables(db, fault)
    IN  IF ~t.ok
        THEN TxFail(500, "StorageError", "ddl", Rollback(db, t.db), t.stmts, NoRates, << >>)
        ELSE IF fault = "commit"
        THEN TxFail(500, "StorageError", "commit", Rollback(db, t.db), t.stmts, NoRates,
                    << >>)
        ELSE TxOk(t.db, t.stmts, NoRates, << >>)

\* A finally clause that closes the connection only when nothing was raised.
CloseOnSuccessOnly(open, raised) == IF raised THEN open ELSE open - 1

\* finally: conn.close()
FinallyClose(open, raised) == open - 1

\* What a request leaves: its answer and what it did on the way.
Outcome(status, err, detail, net, conns, open, stmts, rates, rows, written, committed, rolled_back, db) ==
    [status |-> status, err |-> err, detail |-> detail, net |-> net,
     conns |-> conns, open |-> open, stmts |-> stmts, rates |-> rates,
     rows |-> rows, written |-> written, committed |-> committed,
     rolled_back |-> rolled_back, db |-> db]

\* A request that ends before any connection is opened.
Refused(status, err, detail, net, rates, db, open) ==
    Outcome(status, err, detail, net, 0, open, 0, rates, << >>, 0, FALSE, FALSE, db)

\* _connect_mysql with a complete configuration, then the transaction on the
\* connection, whose result is r, then the finally clause.
OnConnection(net, db, open, fault, r) ==
    IF fault = "connect"
    THEN Refused(502, "StorageError", "connect", net, NoRates, db, open)
    ELSE Outcome(r.status, r.err, r.detail, net, 1,
                 FinallyClose(open + 1, r.status # 200), r.stmts, r.rates, r.rows,
                 IF r.status = 200 THEN Len(r.rows) ELSE 0,
                 r.committed, r.rolled_back, r.db)

\* The history after a successful import that queued `queued`.
RECURSIVE Recorded(_, _)
Recorded(hist, queued) ==
    IF queued = << >> THEN hist
    ELSE Recorded({h \in hist : ~(h.code = Head(queued).code /\ h.date = Head(queued).date)}
                      \cup {Head(queued)},
                  Tail(queued))

\* The queued rows that replace a row imported earlier with another rate.
Replacing(hist, queued) ==
    {i \in 1..Len(queued) :
        \E h \in hist : /\ h.code = queued[i].code /\ h.date = queued[i].date
                        /\ h.rate # queued[i].rate}

\* The request is answered: the store and the record of the request change.
Answer(op, p, o) ==
    /\ tables' = o.db.tables
    /\ parites' = o.db.parites
    /\ parites_jour' = o.db.parites_jour
    /\ open_conns' = o.open
    /\ last' = [op |-> op, target |-> p.target, start |-> p.start, end |-> p.end,
                status |-> o.status, err |-> o.err, detail |-> o.detail,
                net |-> o.net, conns |-> o.conns, stmts |-> o.stmts,
                rates |-> o.rates, rows |-> o.rows, written |-> o.written,
                committed |-> o.committed, rolled_back |-> o.rolled_back,
                replaced |-> IF o.status = 200
                             THEN Cardinality(Replacing(imported, o.rows)) ELSE 0]
    /\ imported' = IF o.status = 200 THEN Recorded(imported, o.rows) ELSE imported
    /\ UNCHANGED apilayer_key

\* api_import_day on a payload [db |-> cfg, target, date]: the connection
\* configuration, the answer of the rate source and the fault of the store are
\* chosen where the handler first reads them.
api_import_day(env) ==
    \E p \in env.day_payloads :
        LET target == safe_iso(p.target)
            date_override == parse_date(p.date)
            req == [target |-> p.target, start |-> NoDate, end |-> NoDate]
            Reply(o) == Answer("import_day", req, o)
        IN  IF ~target.ok
            THEN Reply(Refused(400, "InvalidFormat", "target", 0, NoRates, Db, open_conns))
            ELSE IF p.date.k # "none" /\ ~date_override.ok
            THEN Reply(Refused(400, "InvalidDate", "date", 0, NoRates, Db, open_conns))
            ELSE \E f \in get_latest_rate(apilayer_key, p.date, DayResponses(env.source_failures, env.day_rates, p.date)) :
                IF ~f.ok
                THEN Reply(Refused(f.status, f.err, f.detail, f.net, NoRates, Db, open_conns))
                ELSE \E cfg \in env.db_configs :
                    IF ~ConfigComplete(cfg)
                    THEN Reply(Refused(400, "InvalidConfig", "db", f.net, NoRates, Db,
                                       open_conns))
                    ELSE \E fault \in env.faults :
                        Reply(OnConnection(f.net, Db, open_conns, fault,
                                  api_import_day_tx(Db, target.iso, f.rates, fault)))

\* api_import_range on a payload [db |-> cfg, target, start, end]
api_import_range(env) ==
    \E p \in env.range_payloads :
        LET target == safe_iso(p.target)
            start == parse_date(p.start)
            end == parse_date(p.end)
            Reply(o) == Answer("import_range", p, o)
        IN  IF ~target.ok
            THEN Reply(Refused(400, "InvalidFormat", "target", 0, NoRates, Db, open_conns))
            ELSE IF ~start.ok
            THEN Reply(Refused(400, "InvalidDate", "start", 0, NoRates, Db, open_conns))
            ELSE IF ~end.ok
            THEN Reply(Refused(400, "InvalidDate", "end", 0, NoRates, Db, open_conns))
            ELSE IF end.d < start.d
            THEN Reply(Refused(400, "InvalidRange", "range", 0, NoRates, Db, open_conns))
            ELSE \E f \in get_timeseries_rates(apilayer_key,
                              RangeResponses(env.source_failures, env.range_rates, start.d,
                                             end.d)) :
                IF ~f.ok
                THEN Reply(Refused(f.status, f.err, f.detail, f.net, NoRates, Db, open_conns))
                ELSE \E cfg \in env.db_configs :
                    IF ~ConfigComplete(cfg)
                    THEN Reply(Refused(400, "InvalidConfig", "db", f.net, NoRates, Db,
                                       open_conns))
                    ELSE \E fault \in env.faults :
                        Reply(OnConnection(f.net, Db, open_conns, fault,
                                  api_import_range_tx(Db, target.iso, f.rates, fault)))

\* api_ensure_schema on a payload [db |-> cfg]
api_ensure_schema(env) ==
    \E cfg \in env.db_configs :
        LET req == [target |-> << >>, start |-> NoDate, end |-> NoDate]
            Reply(o) == Answer("ensure_schema", req, o)
        IN  IF ~ConfigComplete(cfg)
            THEN Reply(Refused(400, "InvalidConfig", "db", 0, NoRates, Db, open_conns))
            ELSE \E fault \in env.faults \ {"provision", "upsert"} :
                Reply(OnConnection(0, Db, open_conns, fault,
                          api_ensure_schema_tx(Db, fault)))

\* ------------------------------------------------------------ environment
\* Connection configurations: complete, and with the database missing.
GoodConfig == [host |-> "db", user |-> "u", database |-> "rates"]
DbConfigs == {GoodConfig, [GoodConfig EXCEPT !.database = ""]}

\* Targets as a client sends them: " usd" (a supported currency, to be
\* trimmed and upper-cased), "XXX" (well formed, not in the registry) and
\* "U$D" (malformed).
TargetUsd == <<" ", "u", "s", "d">>
TargetUnknown == <<"X", "X", "X">>
TargetMalformed == <<"U", "$", "D">>
RawTargets == {TargetUsd, TargetUnknown, TargetMalformed}

DateStrings == {BadDate} \cup {IsoDate(d) : d \in Dates}

\* The ends of the periods a client asks for: the first and the last day of
\* the calendar, and a string that is no date.
PeriodEnds == {BadDate, IsoDate(1), IsoDate(NumDates)}

\* Rates the source quotes: zero, 1.105 and 7000.
RateLow == [m |-> 1105, e |-> 0 - 3]
RateHigh == [m |-> 7, e |-> 3]

\* Ways the rate source fails.
SourceFailures ==
    {"transport_error", "http_error", "not_json", "no_symbol", "bad_rates",
     "bad_date", "bad_rate"}

Env ==
    [faults |-> Faults,
     source_failures |-> SourceFailures,
     day_rates |-> {ZeroDecimal, RateLow, RateHigh},
     range_rates |-> {ZeroDecimal, RateLow},
     db_configs |-> DbConfigs,
     day_payloads |-> [target : RawTargets, date : {NoDate} \cup DateStrings],
     range_payloads |-> [target : RawTargets, start : PeriodEnds, end : PeriodEnds]]

NoRequest ==
    [op |-> "none", target |-> << >>, start |-> NoDate, end |-> NoDate,
     status |-> 0, err |-> "", detail |-> "", net |-> 0, conns |-> 0, stmts |-> 0,
     rates |-> NoRates, rows |-> << >>, written |-> 0, committed |-> FALSE,
     rolled_back |-> FALSE, replaced |-> 0]

Init ==
    /\ apilayer_key \in BOOLEAN
    /\ tables = {}
    /\ parites = {}
    /\ parites_jour = {}
    /\ open_conns = 0
    /\ last = NoRequest
    /\ imported = {}

Next ==
    \/ api_ensure_schema(Env)
    \/ api_import_day(Env)
    \/ api_import_range(Env)

Spec == Init /\ [][Next]_vars

\* The numeric specification: one currency, one day, no failure of the
\* source or the store, and every rate m * 10^e with m up to MaxMant and |e| up to MaxExp.
NumRates ==
    {[m |-> m, e |-> e] : m \in 1..MaxMant, e \in (0 - MaxExp)..MaxExp}
    \cup {ZeroDecimal, RateLow}

EnvNum ==
    [faults |-> {"none"},
     source_failures |-> {},
     day_rates |-> NumRates,
     range_rates |-> NumRates,
     db_configs |-> {GoodConfig},
     day_payloads |-> [target : {TargetUsd}, date : {IsoDate(1)}],
     range_payloads |-> [target : {TargetUsd}, start : {IsoDate(1)},
                         end : {IsoDate(1)}]]

NextNum ==
    \/ api_import_day(EnvNum)
    \/ api_import_range(EnvNum)

SpecNum == Init /\ [][NextNum]_vars

\* ---------------------------------------------------------------- claims
IsImport == last.op \in {"import_day", "import_range"}
Failed == last.status # 200
SameKey(x, y) == x.code = y.code /\ x.date = y.date
ZeroDates == {d \in DOMAIN last.rates : last.rates[d].m = 0}
NonZeroDates == {d \in DOMAIN last.rates : last.rates[d].m # 0}
QueuedDates == {last.rows[i].date : i \in 1..Len(last.rows)}
Reversed == /\ last.op = "import_range"
            /\ last.start.k = "iso" /\ last.end.k = "iso"
            /\ last.end.d < last.start.d
NothingTouched == last.net = 0 /\ last.conns = 0 /\ last.stmts = 0

\* C1: after any sequence of imports, parites_jour holds at most one row per
\* (code, date), and the row of every pair carries the rate and the inverse
\* rate of the most recent successful import that wrote the pair (and there
\* is a row for every pair a successful import wrote).
C1_OneRowPerKeyLatestRate ==
    /\ \A x, y \in parites_jour : SameKey(x, y) => x = y
    /\ \A x \in parites_jour :
           \E h \in imported : /\ SameKey(h, x)
                               /\ x.rate = RateUnits(h.rate)
                               /\ x.rate_div = h.rate_div
    /\ \A h \in imported : \E x \in parites_jour : SameKey(h, x)

\* A pair imported before with another rate has just been imported again,
\* and its one row carries the new rate.
C1_Witness ==
    /\ IsImport /\ ~Failed /\ last.replaced > 0
    /\ \E i \in 1..Len(last.rows) :
           /\ last.rows[i].rate = RateLow
           /\ \E x \in parites_jour :
                  SameKey(x, last.rows[i]) /\ x.rate = <<1, 1, 0, 5, 0, 0, 0, 0, 0>>

\* C2: an import that ends with an error leaves the committed rows of
\* parites and of parites_jour exactly as they were before the call.
C2_FailedImportChangesNoRow ==
    [][(last'.op \in {"import_day", "import_range"} /\ last'.status # 200)
           => (parites' = parites /\ parites_jour' = parites_jour)]_vars

\* A range import of a currency without a row yet failed at the commit, after
\* the currency row was inserted and two rate rows were upserted: neither
\* table kept anything.
C2_Witness ==
    /\ last.op = "import_range" /\ last.status = 500 /\ last.detail = "commit"
    /\ Len(last.rows) = 2
    /\ parites = {} /\ parites_jour = {}

\* C3: a single-day import whose fetched rate is zero ends with an error,
\* queues and writes no rate row, and rolls back instead of committing.
C3_ZeroRateFatalForDay ==
    (last.op = "import_day" /\ ZeroDates # {})
        => /\ Failed
           /\ last.rows = << >> /\ last.written = 0
           /\ last.rolled_back /\ ~last.committed

\* A single-day import of a supported currency met a zero rate after it had
\* inserted the currency row, which the rollback took back.
C3_Witness ==
    /\ last.op = "import_day" /\ last.target = TargetUsd /\ last.err = "ZeroRate"
    /\ ZeroDates # {} /\ last.stmts > 0 /\ parites = {}

\* C4: a successful range import upserts exactly the dates of the fetched
\* mapping whose rate is not zero, each with its rate, and answers their
\* number as the rows written (0 when every rate is zero).
C4_RangeWritesNonZeroDates ==
    (last.op = "import_range" /\ ~Failed)
        => /\ QueuedDates = NonZeroDates
           /\ Len(last.rows) = Cardinality(NonZeroDates)
           /\ last.written = Cardinality(NonZeroDates)
           /\ \A d \in NonZeroDates :
                  \E x \in parites_jour :
                      /\ x.date = d /\ x.code = "$"
                      /\ x.rate = RateUnits(last.rates[d])

\* A successful range import whose mapping held a zero rate on an earlier
\* date than a rate that is not zero.
C4_Witness ==
    /\ last.op = "import_range" /\ ~Failed
    /\ \E z \in ZeroDates : \E d \in NonZeroDates : z < d
    /\ last.written = 1

C6_NoOrphanRateRow ==
    \A x \in parites_jour : \E c \in parites : c.code = x.code

\* An import has just inserted the currency row and upserted rate rows in
\* one transaction.
C6_Witness ==
    /\ IsImport /\ ~Failed /\ last.written > 0 /\ last.stmts = 5
    /\ parites # {} /\ parites_jour # {}

\* C7 as stated: for every stored row, rate * inverse rate is within 10^-8
\* of 1 (in units of 10^-16: within 10^8 of 10^16).
C7_ProductWithinOneUnit ==
    \A x \in parites_jour :
        Leq(AbsDiff(Mul(x.rate, x.rate_div), Pow10(2 * FracDigits)), Pow10(FracDigits))

\* C7 as amended: for every stored row, rate * inverse rate differs from 1 by
\* at most (rate + inverse rate + 10^-8) / 2 * 10^-8, the error that rounding
\* both to 8 fractional digits leaves.
C7_ProductWithinRoundingError ==
    \A x \in parites_jour :
        Leq(MulSmall(AbsDiff(Mul(x.rate, x.rate_div), Pow10(2 * FracDigits)), 2),
            Add(Add(x.rate, x.rate_div), <<1>>))

\* The rate 6000 is stored with the inverse 0.00016667: their product is
\* 1.00002.
C7_Witness ==
    \E x \in parites_jour :
        x.rate = Shift(<<6>>, 3 + FracDigits) /\ x.rate_div = <<1, 6, 6, 6, 7>>

\* C8: a request opens at most one connection to the store and leaves none
\* open when it returns.
C8_NoConnectionLeft ==
    open_conns = 0 /\ last.conns <= 1

\* An import failed in the store after it had opened its connection.
C8_Witness ==
    IsImport /\ last.err = "StorageError" /\ last.conns = 1 /\ last.stmts > 0

\* C9: the status of a failed import is 400 for a validation error, 502 for
\* an error of the rate source and 500 for an error of the store, the failure
\* to connect included.
C9_StatusReflectsKind ==
    (IsImport /\ Failed)
        => /\ last.err \in {"InvalidFormat", "UnsupportedCurrency", "InvalidDate",
                            "InvalidRange", "InvalidConfig"} => last.status = 400
           /\ last.err = "UpstreamError" => last.status = 502
           /\ last.err = "StorageError" => last.status = 500

\* C10: an import whose target is well formed and not in the registry fails
\* with UnsupportedCurrency before any request to the rate source and before
\* any statement of the store.
C10_RegistryBeforeSourceAndStore ==
    (IsImport /\ last.target = TargetUnknown)
        => (last.err = "UnsupportedCurrency" /\ last.net = 0 /\ last.stmts = 0)

====
